---- MODULE Spec2Model ----
(***************************************************************************)
(* Model of bot.py: the schedule extraction pipeline (date/time            *)
(* recognisers, header/group locator, row walker, fragment glue,           *)
(* time merger, formatter) and the fetch cache.                            *)
(*                                                                         *)
(* Strings are sequences of characters.  A character is a TLA+ string;     *)
(* characters outside ASCII are written by name:                           *)
(*   "EN" en-dash U+2013, "EM" em-dash U+2014, "NBSP" U+00A0,              *)
(*   "TAB" U+0009, "LF" U+000A, "CR" U+000D, "BULLET" U+2022,              *)
(*   "cyr_x" / "CYR_X" the lower / upper case Cyrillic letter x.           *)
(* Python's None is the value None below, which is no string.              *)
(***************************************************************************)
EXTENDS Integers, Sequences, FiniteSets, TLC

None == <<"<None>">>

VARIABLES
    pc,            \* where the call in progress stands
    timeIn,        \* normalize_time: the parts of the argument
    timeOut,       \* normalize_time: the value returned
    cellLines,     \* _postprocess_cell_text: the lines of the argument
    glued,         \* _postprocess_cell_text: the value returned
    mergeIn,       \* merge_items_by_time: the argument
    mergeOut,      \* merge_items_by_time: the value returned
    mergeOut2,     \* merge_items_by_time applied to mergeOut
    rows,          \* extract_schedule_for_date: the parsed table
    group_name,    \* send_schedule: group
    target_ddmm,   \* send_schedule: ddmm
    loc,           \* header_i, date_col, time_col, group_cols
    pos,           \* the row the loop of extract_schedule_for_date is at
    cur_date,      \* extract_schedule_for_date: cur_date
    cur_time,      \* extract_schedule_for_date: cur_time
    items,         \* extract_schedule_for_date: items
    out,           \* extract_schedule_for_date: the value returned
    reply,         \* send_schedule: what reply_text is given
    CACHE_TEXT,    \* _CACHE_TEXT
    CACHE_TS,      \* _CACHE_TS, in whole seconds
    now,           \* time.time(), in whole seconds
    requests,      \* the number of requests.get calls made so far
    returned       \* fetch_csv_text: the last call's outcome

vars == <<pc, timeIn, timeOut, cellLines, glued, mergeIn, mergeOut, mergeOut2,
          rows, group_name, target_ddmm, loc, pos, cur_date, cur_time, items, out,
          reply, CACHE_TEXT, CACHE_TS, now, requests, returned>>

timeVars == <<timeIn, timeOut>>

glueVars == <<cellLines, glued>>

mergeVars == <<mergeIn, mergeOut, mergeOut2>>

walkVars == <<rows, group_name, target_ddmm, loc, pos, cur_date, cur_time, items, out, reply>>

fetchVars == <<CACHE_TEXT, CACHE_TS, now, requests, returned>>

(***************************************************************************)
(* Character classes (str.isspace, \d, \w, str.lower).                     *)
(***************************************************************************)
Digits == <<"0", "1", "2", "3", "4", "5", "6", "7", "8", "9">>

IsDigit(c) == \E k \in 1..10 : Digits[k] = c

DigitVal(c) == (CHOOSE k \in 1..10 : Digits[k] = c) - 1

IsSpace(c) == c \in {" ", "NBSP", "TAB", "LF", "CR"}

\* <<upper, lower>> pairs of the letters in use
CasePairs == << <<"A", "a">>, <<"B", "b">>, <<"M", "m">>, <<"X", "x">>,
                <<"L", "l">>, <<"G", "g">>, <<"E", "e">>, <<"R", "r">>,
                <<"CYR_A", "cyr_a">>, <<"CYR_B", "cyr_b">>, <<"CYR_V", "cyr_v">>,
                <<"CYR_G", "cyr_g">>, <<"CYR_D", "cyr_d">>, <<"CYR_IE", "cyr_ie">>,
                <<"CYR_ZH", "cyr_zh">>, <<"CYR_I", "cyr_i">>, <<"CYR_KA", "cyr_ka">>,
                <<"CYR_EL", "cyr_el">>, <<"CYR_M", "cyr_m">>, <<"CYR_N", "cyr_n">>,
                <<"CYR_O", "cyr_o">>, <<"CYR_PE", "cyr_pe">>, <<"CYR_ER", "cyr_er">>,
                <<"CYR_S", "cyr_s">>, <<"CYR_T", "cyr_t">>, <<"CYR_U", "cyr_u">>,
                <<"CYR_CH", "cyr_ch">>, <<"CYR_Y", "cyr_y">>, <<"CYR_YU", "cyr_yu">> >>

UpperLetters == {CasePairs[k][1] : k \in 1..Len(CasePairs)}

LowerLetters == {CasePairs[k][2] : k \in 1..Len(CasePairs)}

UpperOf(c) == IF c \in LowerLetters
              THEN CasePairs[CHOOSE k \in 1..Len(CasePairs) : CasePairs[k][2] = c][1]
              ELSE c

LowerChar(c) == IF c \in UpperLetters
                THEN CasePairs[CHOOSE k \in 1..Len(CasePairs) : CasePairs[k][1] = c][2]
                ELSE c

IsWord(c) == IsDigit(c) \/ c \in UpperLetters \/ c \in LowerLetters \/ c = "_"

(***************************************************************************)
(* String helpers (str.lower, str.upper, str.strip, str.replace,           *)
(* str.startswith, the in operator, str.join, str.splitlines).             *)
(***************************************************************************)
Lower(s) == [k \in 1..Len(s) |-> LowerChar(s[k])]

Upper(s) == [k \in 1..Len(s) |-> UpperOf(s[k])]

ReplaceChar(s, from, to) == [k \in 1..Len(s) |-> IF s[k] = from THEN to ELSE s[k]]

RECURSIVE LStrip(_)
LStrip(s) == IF s # <<>> /\ IsSpace(Head(s)) THEN LStrip(Tail(s)) ELSE s

RECURSIVE RStrip(_)
RStrip(s) == IF s # <<>> /\ IsSpace(s[Len(s)])
             THEN RStrip(SubSeq(s, 1, Len(s) - 1)) ELSE s

Strip(s) == RStrip(LStrip(s))

StartsWith(s, p) == Len(s) >= Len(p) /\ SubSeq(s, 1, Len(p)) = p

Contains(s, p) == \E k \in 0..(Len(s) - Len(p)) : SubSeq(s, k + 1, k + Len(p)) = p

RECURSIVE Join(_, _)
Join(sep, ss) == IF ss = <<>> THEN <<>>
                 ELSE IF Len(ss) = 1 THEN ss[1]
                 ELSE ss[1] \o sep \o Join(sep, Tail(ss))

\* the pieces of s between the characters of brk, empty pieces included
RECURSIVE SplitOn(_, _, _)
SplitOn(s, brk, cur) == IF s = <<>> THEN <<cur>>
                        ELSE IF Head(s) \in brk THEN <<cur>> \o SplitOn(Tail(s), brk, <<>>)
                        ELSE SplitOn(Tail(s), brk, Append(cur, Head(s)))

RECURSIVE FilterNonEmpty(_)
FilterNonEmpty(ss) == IF ss = <<>> THEN <<>>
                      ELSE IF Head(ss) = <<>> THEN FilterNonEmpty(Tail(ss))
                      ELSE <<Head(ss)>> \o FilterNonEmpty(Tail(ss))

StripAll(ss) == [k \in 1..Len(ss) |-> Strip(ss[k])]

\* [l.strip() for l in s.splitlines() if l.strip()]: splitlines breaks at LF,
\* at CR and at CR LF; the empty pieces are dropped, so CR LF may count twice
StrippedLines(s) == FilterNonEmpty(StripAll(SplitOn(s, {"LF", "CR"}, <<>>)))

\* [p.strip() for p in s.split("\n") if p.strip()]
StrippedParts(s) == FilterNonEmpty(StripAll(SplitOn(s, {"LF"}, <<>>)))

\* int -> decimal digits, for 0..99 (f"{int(h)}")
IntStr(n) == IF n < 10 THEN <<Digits[n + 1]>>
             ELSE <<Digits[(n \div 10) + 1], Digits[(n % 10) + 1]>>

\* f"{n:02d}" for 0..99
Pad2(n) == <<Digits[(n \div 10) + 1], Digits[(n % 10) + 1]>>

RECURSIVE IntOf(_)
IntOf(ds) == IF ds = <<>> THEN 0
             ELSE 10 * IntOf(SubSeq(ds, 1, Len(ds) - 1)) + DigitVal(ds[Len(ds)])

(***************************************************************************)
(* norm, _compact_spaces, norm_group                                       *)
(***************************************************************************)
norm(s) == Strip(ReplaceChar(s, "NBSP", " "))

RECURSIVE SqueezeSpaces(_)
SqueezeSpaces(s) == IF Len(s) < 2 THEN s
                    ELSE IF s[1] = " " /\ s[2] = " " THEN SqueezeSpaces(Tail(s))
                    ELSE <<s[1]>> \o SqueezeSpaces(Tail(s))

compact_spaces(s) == Strip(SqueezeSpaces(ReplaceChar(ReplaceChar(s, "NBSP", " "), "TAB", " ")))

RECURSIVE RemoveSpaces(_)
RemoveSpaces(s) == IF s = <<>> THEN <<>>
                   ELSE IF IsSpace(Head(s)) THEN RemoveSpaces(Tail(s))
                   ELSE <<Head(s)>> \o RemoveSpaces(Tail(s))

norm_group(s) == Upper(RemoveSpaces(ReplaceChar(ReplaceChar(norm(s), "EN", "-"), "EM", "-")))

(***************************************************************************)
(* Regular expressions.  A search returns the leftmost match, and at one   *)
(* start position the first alternative in the order a backtracking        *)
(* matcher with greedy quantifiers tries them.                             *)
(***************************************************************************)
WordAt(s, k) == k >= 1 /\ k <= Len(s) /\ IsWord(s[k])

\* \b between positions k-1 and k
Boundary(s, k) == WordAt(s, k - 1) # WordAt(s, k)

DigitsAt(s, k, n) == k >= 1 /\ k + n - 1 <= Len(s) /\ \A j \in k..(k + n - 1) : IsDigit(s[j])

CharAt(s, k, set) == k >= 1 /\ k <= Len(s) /\ s[k] \in set

RECURSIVE SkipSpaces(_, _)
SkipSpaces(s, k) == IF k <= Len(s) /\ IsSpace(s[k]) THEN SkipSpaces(s, k + 1) ELSE k

\* the dash class [-<en-dash>] of TIME_RE
TimeDashes == {"-", "EN"}

TimeSeps == {".", ":"}

\* (\d{1,2})[.:](\d{2}) at k with n hour digits
HourMinAt(s, k, n) == DigitsAt(s, k, n) /\ CharAt(s, k + n, TimeSeps) /\ DigitsAt(s, k + n + 1, 2)

\* the alternatives at one start position, in the matcher's order:
\* n1 hour digits, g the optional range group taken, n2 its hour digits
TimeOpts == << [n1 |-> 2, g |-> TRUE, n2 |-> 2], [n1 |-> 2, g |-> TRUE, n2 |-> 1],
               [n1 |-> 2, g |-> FALSE, n2 |-> 0],
               [n1 |-> 1, g |-> TRUE, n2 |-> 2], [n1 |-> 1, g |-> TRUE, n2 |-> 1],
               [n1 |-> 1, g |-> FALSE, n2 |-> 0] >>

TimeMatchAt(s, i, o) ==
    LET a == i + o.n1 + 3
        d == SkipSpaces(s, a)
        k == SkipSpaces(s, d + 1)
    IN  /\ Boundary(s, i)
        /\ HourMinAt(s, i, o.n1)
        /\ IF o.g
           THEN CharAt(s, d, TimeDashes) /\ HourMinAt(s, k, o.n2) /\ Boundary(s, k + o.n2 + 3)
           ELSE Boundary(s, a)

\* the first alternative, from the j-th on, that matches at i; 0 if none
RECURSIVE FirstTimeOpt(_, _, _)
FirstTimeOpt(s, i, j) == IF j > Len(TimeOpts) THEN 0
                         ELSE IF TimeMatchAt(s, i, TimeOpts[j]) THEN j
                         ELSE FirstTimeOpt(s, i, j + 1)

\* TIME_RE.search(s): <<start, alternative>> of the leftmost match from i
\* on, <<0, 0>> if there is none
RECURSIVE TimeSearchFrom(_, _)
TimeSearchFrom(s, i) == IF i > Len(s) THEN <<0, 0>>
                        ELSE IF FirstTimeOpt(s, i, 1) > 0 THEN <<i, FirstTimeOpt(s, i, 1)>>
                        ELSE TimeSearchFrom(s, i + 1)

TimeFound(s) == TimeSearchFrom(s, 1)[1] > 0

\* m.groups() of the match at <<start, alternative>> p
TimeGroups(s, p) ==
    LET i == p[1]
        o == TimeOpts[p[2]]
        k == SkipSpaces(s, SkipSpaces(s, i + o.n1 + 3) + 1)
    IN  [h1 |-> SubSeq(s, i, i + o.n1 - 1),
         m1 |-> SubSeq(s, i + o.n1 + 1, i + o.n1 + 2),
         h2 |-> IF o.g THEN SubSeq(s, k, k + o.n2 - 1) ELSE None,
         m2 |-> IF o.g THEN SubSeq(s, k + o.n2 + 1, k + o.n2 + 2) ELSE None]

normalize_time(s0) ==
    LET s == norm(s0)
        p == TimeSearchFrom(s, 1)
    IN  IF p[1] = 0 THEN s
        ELSE LET m == TimeGroups(s, p)
             IN  IF m.h2 # None /\ m.m2 # None
                 THEN IntStr(IntOf(m.h1)) \o <<":">> \o m.m1 \o <<"EN">>
                      \o IntStr(IntOf(m.h2)) \o <<":">> \o m.m2
                 ELSE IntStr(IntOf(m.h1)) \o <<":">> \o m.m1

DateSeps == {".", "-", "/"}

\* alternatives of DATE_RE at one start position: nd day digits, nm month
\* digits, ny year digits (0: the optional year group not taken)
DateOpts == << [nd |-> 2, nm |-> 2, ny |-> 4], [nd |-> 2, nm |-> 2, ny |-> 3],
               [nd |-> 2, nm |-> 2, ny |-> 2], [nd |-> 2, nm |-> 2, ny |-> 0],
               [nd |-> 2, nm |-> 1, ny |-> 4], [nd |-> 2, nm |-> 1, ny |-> 3],
               [nd |-> 2, nm |-> 1, ny |-> 2], [nd |-> 2, nm |-> 1, ny |-> 0],
               [nd |-> 1, nm |-> 2, ny |-> 4], [nd |-> 1, nm |-> 2, ny |-> 3],
               [nd |-> 1, nm |-> 2, ny |-> 2], [nd |-> 1, nm |-> 2, ny |-> 0],
               [nd |-> 1, nm |-> 1, ny |-> 4], [nd |-> 1, nm |-> 1, ny |-> 3],
               [nd |-> 1, nm |-> 1, ny |-> 2], [nd |-> 1, nm |-> 1, ny |-> 0] >>

DateMatchAt(s, i, o) ==
    LET a == i + o.nd + 1 + o.nm
    IN  /\ Boundary(s, i)
        /\ DigitsAt(s, i, o.nd)
        /\ CharAt(s, i + o.nd, DateSeps)
        /\ DigitsAt(s, i + o.nd + 1, o.nm)
        /\ IF o.ny > 0
           THEN CharAt(s, a, DateSeps) /\ DigitsAt(s, a + 1, o.ny) /\ Boundary(s, a + 1 + o.ny)
           ELSE Boundary(s, a)

RECURSIVE FirstDateOpt(_, _, _)
FirstDateOpt(s, i, j) == IF j > Len(DateOpts) THEN 0
                         ELSE IF DateMatchAt(s, i, DateOpts[j]) THEN j
                         ELSE FirstDateOpt(s, i, j + 1)

\* DATE_RE.search(s): <<start, alternative>> of the leftmost match from i
\* on, <<0, 0>> if there is none
RECURSIVE DateSearchFrom(_, _)
DateSearchFrom(s, i) == IF i > Len(s) THEN <<0, 0>>
                        ELSE IF FirstDateOpt(s, i, 1) > 0 THEN <<i, FirstDateOpt(s, i, 1)>>
                        ELSE DateSearchFrom(s, i + 1)

DateFound(s) == DateSearchFrom(s, 1)[1] > 0

parse_ddmm(s) ==
    LET p == DateSearchFrom(s, 1)
    IN  IF p[1] = 0 THEN None
        ELSE LET i == p[1]
                 o == DateOpts[p[2]]
                 dd == IntOf(SubSeq(s, i, i + o.nd - 1))
                 mm == IntOf(SubSeq(s, i + o.nd + 1, i + o.nd + o.nm))
             IN  Pad2(dd) \o <<".">> \o Pad2(mm)

(***************************************************************************)
(* Words of the source, spelled out.                                       *)
(***************************************************************************)
\* "pr" and "lek" in Cyrillic: the members of _TAG_ONLY
W_pr == <<"cyr_pe", "cyr_er">>

W_lek == <<"cyr_el", "cyr_ie", "cyr_ka">>

TAG_ONLY == {W_pr, W_lek}

\* the boilerplate words "semestr" and "utverzhdayu" in Cyrillic
W_semestr == <<"cyr_s", "cyr_ie", "cyr_m", "cyr_ie", "cyr_s", "cyr_t", "cyr_er">>

W_utverzhdayu == <<"cyr_u", "cyr_t", "cyr_v", "cyr_ie", "cyr_er", "cyr_zh", "cyr_d", "cyr_a", "cyr_yu">>

\* the per-slot placeholder "net pary" and the no-classes line "net par"
NoPairSlot == <<"cyr_n", "cyr_ie", "cyr_t", " ", "cyr_pe", "cyr_a", "cyr_er", "cyr_y">>

NoPairsLine == <<"cyr_n", "cyr_ie", "cyr_t", " ", "cyr_pe", "cyr_a", "cyr_er">>

\* the header labels "data" and "chasy" in Cyrillic, lower case
W_data == <<"cyr_d", "cyr_a", "cyr_t", "cyr_a">>

W_chasy == <<"cyr_ch", "cyr_a", "cyr_s", "cyr_y">>

\* the group prefix in upper and in lower case
W_IG == <<"CYR_I", "CYR_G">>

W_ig == <<"cyr_i", "cyr_g">>

(***************************************************************************)
(* _glue_short_tags, _glue_pr_slash_lines, _postprocess_cell_text          *)
(***************************************************************************)
GlueOnto(acc, ln) == [acc EXCEPT ![Len(acc)] = compact_spaces(acc[Len(acc)] \o <<" ">> \o ln)]

RECURSIVE GlueShortTagsFrom(_, _)
GlueShortTagsFrom(lines, acc) ==
    IF lines = <<>> THEN acc
    ELSE LET ln == compact_spaces(Head(lines))
             low == Lower(ln)
         IN  IF ln = <<>> THEN GlueShortTagsFrom(Tail(lines), acc)
             ELSE IF acc # <<>> /\ low \in TAG_ONLY
                  THEN GlueShortTagsFrom(Tail(lines), GlueOnto(acc, ln))
             ELSE IF acc # <<>> /\ (low = W_pr \/ low = W_lek)
                  THEN GlueShortTagsFrom(Tail(lines), GlueOnto(acc, ln))
             ELSE GlueShortTagsFrom(Tail(lines), Append(acc, ln))

glue_short_tags(lines) == GlueShortTagsFrom(lines, <<>>)

RECURSIVE GluePrSlashFrom(_, _)
GluePrSlashFrom(lines, acc) ==
    IF lines = <<>> THEN acc
    ELSE LET ln == compact_spaces(Head(lines))
         IN  IF ln = <<>> THEN GluePrSlashFrom(Tail(lines), acc)
             ELSE IF acc # <<>> /\ (StartsWith(ln, <<"/">>) \/ StartsWith(ln, <<"/", " ">>))
                  THEN GluePrSlashFrom(Tail(lines), GlueOnto(acc, ln))
             ELSE IF acc # <<>> /\ Lower(acc[Len(acc)]) \in TAG_ONLY /\ StartsWith(ln, <<"/">>)
                  THEN GluePrSlashFrom(Tail(lines), GlueOnto(acc, ln))
             ELSE GluePrSlashFrom(Tail(lines), Append(acc, ln))

\* the slash rule left out: the lines compacted, none appended to another
GluePrSlashKeep(lines) == FilterNonEmpty([k \in 1..Len(lines) |-> compact_spaces(lines[k])])

glue_pr_slash_lines(lines) == GluePrSlashFrom(lines, <<>>)

RECURSIVE RemoveChar(_, _)
RemoveChar(s, c) == IF s = <<>> THEN <<>>
                    ELSE IF Head(s) = c THEN RemoveChar(Tail(s), c)
                    ELSE <<Head(s)>> \o RemoveChar(Tail(s), c)

IsBoilerplate(l) == Contains(Lower(l), W_semestr) \/ Contains(Lower(l), W_utverzhdayu)

RECURSIVE DropBoilerplate(_)
DropBoilerplate(ls) == IF ls = <<>> THEN <<>>
                       ELSE IF IsBoilerplate(Head(ls)) THEN DropBoilerplate(Tail(ls))
                       ELSE <<Head(ls)>> \o DropBoilerplate(Tail(ls))

postprocess_cell_text(cell_text) ==
    LET raw_lines == StrippedLines(RemoveChar(cell_text, "CR"))
        cleaned == DropBoilerplate(raw_lines)
    IN  glue_pr_slash_lines(glue_short_tags(cleaned))

(***************************************************************************)
(* merge_items_by_time, format_schedule.  An item is <<time, text>>.       *)
(***************************************************************************)
InSeq(x, q) == \E k \in 1..Len(q) : q[k] = x

RECURSIVE AddLines(_, _)
AddLines(bucket, lines) ==
    IF lines = <<>> THEN bucket
    ELSE IF InSeq(Head(lines), bucket) THEN AddLines(bucket, Tail(lines))
    ELSE AddLines(Append(bucket, Head(lines)), Tail(lines))

\* merged.setdefault(tm, []) and the loop over the lines: merged is the
\* OrderedDict as a sequence of [tm, lines] in insertion order
MergeOne(merged, tm, lines) ==
    IF \E k \in 1..Len(merged) : merged[k].tm = tm
    THEN LET k == CHOOSE k \in 1..Len(merged) : merged[k].tm = tm
         IN  [merged EXCEPT ![k].lines = AddLines(@, lines)]
    ELSE Append(merged, [tm |-> tm, lines |-> AddLines(<<>>, lines)])

\* the bucket key taken before the strip
MergeKeyUnstripped(tm) == tm

\* the key of the bucket an item goes to: the stripped time

MergeKey(tm) == Strip(tm)

RECURSIVE MergeFrom(_, _)
MergeFrom(its, merged) ==
    IF its = <<>> THEN merged
    ELSE LET tm == Strip(Head(its)[1])
             tx == Strip(Head(its)[2])
         IN  IF tm = <<>> \/ tx = <<>> THEN MergeFrom(Tail(its), merged)
             ELSE MergeFrom(Tail(its),
                            MergeOne(merged, MergeKey(Head(its)[1]), StrippedLines(tx)))

merge_items_by_time(its) ==
    LET merged == MergeFrom(its, <<>>)
    IN  [k \in 1..Len(merged) |-> <<Strip(merged[k].tm), Join(<<"LF">>, merged[k].lines)>>]

RECURSIVE IndentAll(_)
IndentAll(ps) == IF ps = <<>> THEN <<>>
                 ELSE <<<<" ", " ">> \o Head(ps)>> \o IndentAll(Tail(ps))

RECURSIVE FormatEntries(_)
FormatEntries(its) ==
    IF its = <<>> THEN <<>>
    ELSE LET tm == Head(its)[1]
             parts == StrippedParts(Head(its)[2])
         IN  IF parts = <<>> THEN FormatEntries(Tail(its))
             ELSE <<<<"BULLET", " ">> \o tm \o <<" ", "EM", " ">> \o parts[1]>>
                  \o IndentAll(Tail(parts)) \o << <<>> >> \o FormatEntries(Tail(its))

RECURSIVE PopEmpty(_)
PopEmpty(ls) == IF ls # <<>> /\ ls[Len(ls)] = <<>>
                THEN PopEmpty(SubSeq(ls, 1, Len(ls) - 1)) ELSE ls

Title(group, ddmm) == group \o <<" ", "EM", " ">> \o ddmm \o <<":">>

\* the "if not items" branch left out
FormatNoEmptyBranch(group, ddmm, its) ==
    Join(<<"LF">>, PopEmpty(<<Title(group, ddmm)>>
                            \o FormatEntries(merge_items_by_time(its))))

format_schedule(group, ddmm, its) ==
    IF its = <<>> THEN Title(group, ddmm) \o <<"LF">> \o NoPairsLine
    ELSE Join(<<"LF">>, PopEmpty(<<Title(group, ddmm)>>
                                 \o FormatEntries(merge_items_by_time(its))))

(***************************************************************************)
(* find_header_and_group_cols.  A table is a sequence of rows, a row a     *)
(* sequence of cells (what csv.reader yields).  Rows and columns are       *)
(* numbered from 1 here and from 0 in the source.                          *)
(***************************************************************************)
HEADER_SCAN_ROWS == 60

GROUP_SCAN_ROWS == 12

HINT_SCAN_ROWS == 50

Min(a, b) == IF a < b THEN a ELSE b

SetMax(S) == CHOOSE x \in S : \A y \in S : y <= x

\* low = [norm(x).lower() for x in row]
LowRow(row) == [j \in 1..Len(row) |-> Lower(norm(row[j]))]

IsHeaderRow(row) == InSeq(W_data, LowRow(row)) /\ InSeq(W_chasy, LowRow(row))

IndexOf(x, q) == CHOOSE k \in 1..Len(q) : q[k] = x /\ \A k2 \in 1..(k - 1) : q[k2] # x

HeaderFound(tbl) == \E i \in 1..Min(HEADER_SCAN_ROWS, Len(tbl)) : IsHeaderRow(tbl[i])

header_row_i(tbl) == CHOOSE i \in 1..Min(HEADER_SCAN_ROWS, Len(tbl)) :
                          IsHeaderRow(tbl[i]) /\ \A i2 \in 1..(i - 1) : ~IsHeaderRow(tbl[i2])

\* the rows scanned for the group's columns: the header row and those below,
\* GROUP_SCAN_ROWS rows at most
GroupWindow(tbl, header_i) == header_i..Min(header_i + GROUP_SCAN_ROWS - 1, Len(tbl))

group_cols_of(tbl, header_i, group) ==
    {j \in 1..SetMax({Len(tbl[i]) : i \in 1..Len(tbl)}) :
        \E i \in GroupWindow(tbl, header_i) :
            j <= Len(tbl[i]) /\ norm_group(tbl[i][j]) = norm_group(group)}

find_header_and_group_cols(tbl, group) ==
    LET h == header_row_i(tbl)
    IN  [header_i |-> h,
         date_col |-> IndexOf(W_data, LowRow(tbl[h])),
         time_col |-> IndexOf(W_chasy, LowRow(tbl[h])),
         group_cols |-> group_cols_of(tbl, h, group)]

HasGroupPrefix(c) == StartsWith(c, W_IG) \/ StartsWith(c, W_ig)

\* the rows scanned for the labels of the hint
HintRows(tbl) == 1..Min(HINT_SCAN_ROWS, Len(tbl))

groups_found(tbl) ==
    {norm(tbl[i][j]) : <<i, j>> \in
        {p \in HintRows(tbl) \X (1..SetMax({Len(tbl[i]) : i \in 1..Len(tbl)})) :
            p[2] <= Len(tbl[p[1]]) /\ HasGroupPrefix(norm(tbl[p[1]][p[2]]))}}

(***************************************************************************)
(* extract_schedule_for_date: one row of the loop, and the final dedupe.   *)
(***************************************************************************)
RECURSIVE SortedSeq(_)
SortedSeq(S) == IF S = {} THEN <<>>
                ELSE LET m == CHOOSE x \in S : \A y \in S : x <= y
                     IN  <<m>> \o SortedSeq(S \ {m})

PadRow(r, need_len) == IF Len(r) < need_len
                       THEN r \o [k \in 1..(need_len - Len(r)) |-> <<>>]
                       ELSE r

NeedLen(lc) == SetMax({lc.date_col, lc.time_col} \cup lc.group_cols)

\* the date guard taken before the update: a date other than the requested
\* one is not carried
NextDateOnlyTarget(cur_d, r, lc) ==
    LET ddmm == parse_ddmm(norm(PadRow(r, NeedLen(lc))[lc.date_col]))
    IN  IF ddmm # None /\ ddmm = target_ddmm THEN ddmm ELSE cur_d

\* cur_date after the row r
NextDate(cur_d, r, lc) ==
    LET ddmm == parse_ddmm(norm(PadRow(r, NeedLen(lc))[lc.date_col]))
    IN  IF ddmm # None THEN ddmm ELSE cur_d

\* the carried time cleared by a new date
NextTimeResetOnDate(cur_t, r, lc) ==
    LET t_raw == norm(PadRow(r, NeedLen(lc))[lc.time_col])
    IN  IF TimeFound(t_raw) THEN normalize_time(t_raw)
        ELSE IF parse_ddmm(norm(PadRow(r, NeedLen(lc))[lc.date_col])) # None THEN None
        ELSE cur_t

\* cur_time after the row r
NextTime(cur_t, r, lc) ==
    LET t_raw == norm(PadRow(r, NeedLen(lc))[lc.time_col])
    IN  IF TimeFound(t_raw) THEN normalize_time(t_raw) ELSE cur_t

RECURSIVE NonEmptyNorm(_, _)
NonEmptyNorm(r, cols) ==
    IF cols = <<>> THEN <<>>
    ELSE IF norm(r[Head(cols)]) = <<>> THEN NonEmptyNorm(r, Tail(cols))
    ELSE <<norm(r[Head(cols)])>> \o NonEmptyNorm(r, Tail(cols))

RECURSIVE UniqLower(_, _)
UniqLower(lines, seen) ==
    IF lines = <<>> THEN <<>>
    ELSE IF Lower(Head(lines)) \in seen THEN UniqLower(Tail(lines), seen)
    ELSE <<Head(lines)>> \o UniqLower(Tail(lines), seen \cup {Lower(Head(lines))})

\* the item a row on the requested date adds, under the carried time
RowItem(r, lc, cur_t) ==
    LET parts == NonEmptyNorm(PadRow(r, NeedLen(lc)), SortedSeq(lc.group_cols))
        lines == postprocess_cell_text(Strip(Join(<<"LF">>, parts)))
    IN  IF parts = <<>> THEN <<cur_t, NoPairSlot>>
        ELSE IF lines = <<>> THEN <<cur_t, NoPairSlot>>
        ELSE <<cur_t, Join(<<"LF">>, UniqLower(lines, {}))>>

\* the guard "if not cur_time: continue" left out
RowSkippedNoTimeGuard(cur_d, cur_t, target) == cur_d # target

\* the two guards of the loop body: the row adds no item
RowSkipped(cur_d, cur_t, target) ==
    cur_d # target \/ cur_t = None \/ cur_t = <<>>

RECURSIVE DedupeFrom(_, _)
DedupeFrom(its, seen) ==
    IF its = <<>> THEN <<>>
    ELSE IF Head(its) \in seen THEN DedupeFrom(Tail(its), seen)
    ELSE <<Head(its)>> \o DedupeFrom(Tail(its), seen \cup {Head(its)})

(***************************************************************************)
(* The values of the variables a specification does not use.               *)
(***************************************************************************)
NoTime == [h1 |-> <<>>, s1 |-> "", m1 |-> <<>>, pad1 |-> 0, dash |-> "", pad2 |-> 0,
           h2 |-> <<>>, s2 |-> "", m2 |-> <<>>]

NoLoc == [header_i |-> 0, date_col |-> 0, time_col |-> 0, group_cols |-> {}]

NoReply == [error |-> FALSE, kind |-> "", hint |-> {}, text |-> <<>>]

TimeIdle == timeIn = NoTime /\ timeOut = <<>>

GlueIdle == cellLines = <<>> /\ glued = <<>>

MergeIdle == mergeIn = <<>> /\ mergeOut = <<>> /\ mergeOut2 = <<>>

WalkIdle == /\ rows = <<>> /\ group_name = <<>> /\ target_ddmm = <<>> /\ loc = NoLoc
            /\ pos = 0 /\ cur_date = None /\ cur_time = None /\ items = <<>>
            /\ out = <<>> /\ reply = NoReply

NoCall == [call |-> 0, url |-> "", text |-> None, raised |-> FALSE, cached |-> FALSE]

FetchIdle == CACHE_TEXT = None /\ CACHE_TS = 0 /\ now = 0 /\ requests = 0 /\ returned = NoCall

(***************************************************************************)
(* normalize_time on time ranges                                           *)
(***************************************************************************)
\* the most spaces on either side of the dash
MaxPad == 1

Spaces(n) == [k \in 1..n |-> " "]

\* the text of a range given by its parts
TimeText(t) == t.h1 \o <<t.s1>> \o t.m1 \o Spaces(t.pad1) \o <<t.dash>> \o Spaces(t.pad2)
               \o t.h2 \o <<t.s2>> \o t.m2

TimeInputs == [h1 : {<<"8">>, <<"0", "8">>, <<"1", "0">>}, s1 : {":", "."},
               m1 : {<<"3", "0">>}, pad1 : 0..MaxPad, dash : {"-", "EN", "EM"},
               pad2 : 0..MaxPad, h2 : {<<"9">>, <<"0", "9">>, <<"1", "1">>},
               s2 : {":", "."}, m2 : {<<"0", "5">>}]

InitTime == /\ pc = "start"
            /\ timeIn \in TimeInputs
            /\ timeOut = <<>>
            /\ GlueIdle /\ MergeIdle /\ WalkIdle /\ FetchIdle

NormalizeTime == /\ pc = "start"
                 /\ timeOut' = normalize_time(TimeText(timeIn))
                 /\ pc' = "done"
                 /\ UNCHANGED <<timeIn, glueVars, mergeVars, walkVars, fetchVars>>

NextTimeSpec == NormalizeTime

SpecTime == InitTime /\ [][NextTimeSpec]_vars

(***************************************************************************)
(* _postprocess_cell_text on the lines of a cell                           *)
(***************************************************************************)
\* the most lines of a cell
MaxLines == 3

SeqsUpTo(S, n) == UNION {[1..k -> S] : k \in 0..n}

L_Algebra == <<"A", "l", "g", "e", "b", "r", "a">>

L_room == <<"/", " ", "3", "-", "1", "7">>

\* "Algebra", the two tags (one in upper case, one with spaces around), two
\* slash fragments, a boilerplate line
GlueLines == {L_Algebra, W_pr, <<"CYR_PE", "CYR_ER">>, <<" ", "cyr_el", "cyr_ie", "cyr_ka", "TAB">>,
              L_room, <<"/", "b">>, W_semestr \o <<" ", "2">>}

InitGlue == /\ pc = "start"
            /\ cellLines \in SeqsUpTo(GlueLines, MaxLines)
            /\ glued = <<>>
            /\ TimeIdle /\ MergeIdle /\ WalkIdle /\ FetchIdle

Postprocess == /\ pc = "start"
               /\ glued' = postprocess_cell_text(Join(<<"LF">>, cellLines))
               /\ pc' = "done"
               /\ UNCHANGED <<cellLines, timeVars, mergeVars, walkVars, fetchVars>>

NextGlueSpec == Postprocess

SpecGlue == InitGlue /\ [][NextGlueSpec]_vars

(***************************************************************************)
(* merge_items_by_time, applied once and then to its own result            *)
(***************************************************************************)
\* the most items of a list
MaxItems == 3

T_800 == <<"8", ":", "0", "0">>

T_940 == <<"9", ":", "4", "0">>

MergeTimes == {T_800, <<" ">> \o T_800, T_940}

MergeTexts == {NoPairSlot, <<"A">>, <<"A", "LF", "b", " ">>, <<" ">>}

InitMerge == /\ pc = "start"
             /\ mergeIn \in SeqsUpTo(MergeTimes \X MergeTexts, MaxItems)
             /\ mergeOut = <<>> /\ mergeOut2 = <<>>
             /\ TimeIdle /\ GlueIdle /\ WalkIdle /\ FetchIdle

Merge == /\ pc = "start"
         /\ mergeOut' = merge_items_by_time(mergeIn)
         /\ pc' = "merged"
         /\ UNCHANGED <<mergeIn, mergeOut2, timeVars, glueVars, walkVars, fetchVars>>

MergeAgain == /\ pc = "merged"
              /\ mergeOut2' = merge_items_by_time(mergeOut)
              /\ pc' = "done"
              /\ UNCHANGED <<mergeIn, mergeOut, timeVars, glueVars, walkVars, fetchVars>>

NextMergeSpec == Merge \/ MergeAgain

SpecMerge == InitMerge /\ [][NextMergeSpec]_vars

(***************************************************************************)
(* send_schedule after the fetch: extract_schedule_for_date row by row,    *)
(* then format_schedule and the reply; an exception becomes an error reply.*)
(***************************************************************************)
\* find_header_and_group_cols raises: no header row in the scan window
LocateHeaderFail ==
    /\ pc = "locate"
    /\ ~HeaderFound(rows)
    /\ reply' = [error |-> TRUE, kind |-> "HeaderNotFound", hint |-> {}, text |-> <<>>]
    /\ pc' = "replied"
    /\ UNCHANGED <<rows, group_name, target_ddmm, loc, pos, cur_date, cur_time, items, out>>
    /\ UNCHANGED <<timeVars, glueVars, mergeVars, fetchVars>>

\* extract_schedule_for_date raises: no column of the group; hint is
\* groups_found, empty where the message says none was found
LocateGroupFail ==
    /\ pc = "locate"
    /\ HeaderFound(rows)
    /\ find_header_and_group_cols(rows, group_name).group_cols = {}
    /\ loc' = find_header_and_group_cols(rows, group_name)
    /\ reply' = [error |-> TRUE, kind |-> "GroupColumnNotFound",
                 hint |-> groups_found(rows), text |-> <<>>]
    /\ pc' = "replied"
    /\ UNCHANGED <<rows, group_name, target_ddmm, pos, cur_date, cur_time, items, out>>
    /\ UNCHANGED <<timeVars, glueVars, mergeVars, fetchVars>>

LocateOk ==
    /\ pc = "locate"
    /\ HeaderFound(rows)
    /\ find_header_and_group_cols(rows, group_name).group_cols # {}
    /\ loc' = find_header_and_group_cols(rows, group_name)
    /\ pos' = loc'.header_i + 1
    /\ items' = <<>> /\ cur_date' = None /\ cur_time' = None
    /\ pc' = "walk"
    /\ UNCHANGED <<rows, group_name, target_ddmm, out, reply>>
    /\ UNCHANGED <<timeVars, glueVars, mergeVars, fetchVars>>

\* one pass of the loop "for r in rows[header_i + 1:]"
WalkRow ==
    /\ pc = "walk"
    /\ pos <= Len(rows)
    /\ cur_date' = NextDate(cur_date, rows[pos], loc)
    /\ cur_time' = NextTime(cur_time, rows[pos], loc)
    /\ items' = IF RowSkipped(cur_date', cur_time', target_ddmm) THEN items
                ELSE Append(items, RowItem(rows[pos], loc, cur_time'))
    /\ pos' = pos + 1
    /\ UNCHANGED <<pc, rows, group_name, target_ddmm, loc, out, reply>>
    /\ UNCHANGED <<timeVars, glueVars, mergeVars, fetchVars>>

\* the loop is over: the (time, text) repeats are removed and the list returned
Return ==
    /\ pc = "walk"
    /\ pos > Len(rows)
    /\ out' = DedupeFrom(items, {})
    /\ pc' = "format"
    /\ UNCHANGED <<rows, group_name, target_ddmm, loc, pos, cur_date, cur_time, items, reply>>
    /\ UNCHANGED <<timeVars, glueVars, mergeVars, fetchVars>>

Format ==
    /\ pc = "format"
    /\ reply' = [error |-> FALSE, kind |-> "", hint |-> {},
                 text |-> format_schedule(group_name, target_ddmm, out)]
    /\ pc' = "replied"
    /\ UNCHANGED <<rows, group_name, target_ddmm, loc, pos, cur_date, cur_time, items, out>>
    /\ UNCHANGED <<timeVars, glueVars, mergeVars, fetchVars>>

NextSchedule == LocateHeaderFail \/ LocateGroupFail \/ LocateOk \/ WalkRow \/ Return \/ Format

\* the labels and cells of the tables
C_Data == <<"CYR_D", "cyr_a", "cyr_t", "cyr_a">>

C_Chasy == <<"CYR_CH", "cyr_a", "cyr_s", "cyr_y">>

\* the requested group, the same label in lower case with a space, and
\* another group's label in upper and in lower case
G_1 == <<"CYR_I", "CYR_G", "1">>

G_1low == <<"cyr_i", "cyr_g", " ", "1">>

G_2 == <<"CYR_I", "CYR_G", "2">>

G_2low == <<" ", "cyr_i", "cyr_g", "2">>

D_0102 == <<"0", "1", ".", "0", "2">>

T_range == <<"9", ".", "4", "0", "-", "1", "1", ".", "1", "5">>

\* the most rows below the header, in the tables of the row walker
MaxBody == 3

\* rows of three cells, date, time and group: the requested date, another
\* date or none; a time or none; a text or none; and a short row that the
\* loop pads, its time a range; and a row whose group cell is boilerplate
BodyRows == {<<D_0102, T_800, <<"A">>>>, <<D_0102, T_800, <<>>>>,
             <<D_0102, <<>>, <<"A">>>>, <<D_0102, <<>>, <<>>>>,
             <<<<>>, <<>>, <<"A">>>>, <<<<>>, <<>>, <<>>>>,
             <<<<>>, T_800, <<"A">>>>,
             <<<<"2", "/", "2">>, T_800, <<"A">>>>, <<<<"2", "/", "2">>, <<>>, <<"A">>>>,
             <<<<>>, T_range>>,
             <<<<>>, <<>>, <<"CYR_S">> \o Tail(W_semestr)>>}

WalkTables == {<<<<C_Data, C_Chasy, G_1>>>> \o body : body \in SeqsUpTo(BodyRows, MaxBody)}

\* the most rows below the header and the gap, in the tables of the locator
MaxTail == 1

Blank(n) == [k \in 1..n |-> <<>>]

\* the numbers of empty rows above the header
PadRows == {38, 49, 50, 59, 60}

\* the numbers of empty rows right below the header
GapRows == {0, 10, 11}

HeaderRows == {<<C_Data, C_Chasy, G_1>>, <<C_Data, C_Chasy, G_2>>, <<C_Data, C_Chasy, <<>>>>,
               <<C_Chasy, Lower(C_Data), G_2low, G_1low>>}

TailRows == {<<<<>>, <<>>, G_1low>>, <<<<>>, <<>>, G_2low>>, <<D_0102, T_800, <<"A">>>>}

LocateTables == {Blank(n) \o <<h>> \o Blank(g) \o tail :
                    <<n, h, g, tail>> \in PadRows \X HeaderRows \X GapRows \X SeqsUpTo(TailRows, MaxTail)}

InitSchedule == /\ pc = "locate"
                /\ rows \in WalkTables \cup LocateTables
                /\ group_name = G_1
                /\ target_ddmm = D_0102
                /\ loc = NoLoc /\ pos = 0 /\ cur_date = None /\ cur_time = None
                /\ items = <<>> /\ out = <<>> /\ reply = NoReply
                /\ TimeIdle /\ GlueIdle /\ MergeIdle /\ FetchIdle

SpecSchedule == InitSchedule /\ [][NextSchedule]_vars

(***************************************************************************)
(* fetch_csv_text and the clock.  Time is in whole seconds.                *)
(***************************************************************************)
CACHE_SECONDS == 60

\* the clock at the start, how far it runs, and the most calls made
StartNow == 1000

MaxElapsed == 61

MaxCalls == 3

Urls == {"u1", "u2"}

\* what the server answers with: a text, the empty one too
Responses == {<<"A">>, <<"b">>, <<>>}

ClockSteps == {1, 59, 60}

Tick(d) == /\ pc = "serve"
           /\ now + d <= StartNow + MaxElapsed
           /\ now' = now + d
           /\ UNCHANGED <<pc, CACHE_TEXT, CACHE_TS, requests, returned>>
           /\ UNCHANGED <<timeVars, glueVars, mergeVars, walkVars>>

\* the cache test with the bound included
CacheFreshInclusive == CACHE_TEXT # None /\ CACHE_TEXT # <<>> /\ (now - CACHE_TS) <= CACHE_SECONDS

\* "if _CACHE_TEXT and (now - _CACHE_TS) < CACHE_SECONDS"
CacheFresh == CACHE_TEXT # None /\ CACHE_TEXT # <<>> /\ (now - CACHE_TS) < CACHE_SECONDS

\* fetch_csv_text(url) answered from the cache
FetchCached(url) ==
    /\ pc = "serve"
    /\ returned.call < MaxCalls
    /\ CacheFresh
    /\ returned' = [call |-> returned.call + 1, url |-> url, text |-> CACHE_TEXT,
                    raised |-> FALSE, cached |-> TRUE]
    /\ UNCHANGED <<pc, CACHE_TEXT, CACHE_TS, now, requests>>
    /\ UNCHANGED <<timeVars, glueVars, mergeVars, walkVars>>

\* fetch_csv_text(url) with a request that succeeds with the text resp
FetchOk(url, resp) ==
    /\ pc = "serve"
    /\ returned.call < MaxCalls
    /\ ~CacheFresh
    /\ requests' = requests + 1
    /\ CACHE_TEXT' = resp
    /\ CACHE_TS' = now
    /\ returned' = [call |-> returned.call + 1, url |-> url, text |-> resp,
                    raised |-> FALSE, cached |-> FALSE]
    /\ UNCHANGED <<pc, now>>
    /\ UNCHANGED <<timeVars, glueVars, mergeVars, walkVars>>

\* fetch_csv_text(url) with a request that fails: requests.get or
\* raise_for_status raises, and the cache is left as it was
FetchRaise(url) ==
    /\ pc = "serve"
    /\ returned.call < MaxCalls
    /\ ~CacheFresh
    /\ requests' = requests + 1
    /\ returned' = [call |-> returned.call + 1, url |-> url, text |-> None,
                    raised |-> TRUE, cached |-> FALSE]
    /\ UNCHANGED <<pc, CACHE_TEXT, CACHE_TS, now>>
    /\ UNCHANGED <<timeVars, glueVars, mergeVars, walkVars>>

InitFetch == /\ pc = "serve"
             /\ CACHE_TEXT = None /\ CACHE_TS = 0 /\ now = StartNow /\ requests = 0
             /\ returned = NoCall
             /\ TimeIdle /\ GlueIdle /\ MergeIdle /\ WalkIdle

NextFetch == \/ \E d \in ClockSteps : Tick(d)
             \/ \E url \in Urls : FetchCached(url)
             \/ \E url \in Urls, resp \in Responses : FetchOk(url, resp)
             \/ \E url \in Urls : FetchRaise(url)

SpecFetch == InitFetch /\ [][NextFetch]_vars

(***************************************************************************)
(* What the table says, row by row, in the claims' own terms.              *)
(***************************************************************************)
Cell(r, j) == IF j <= Len(r) THEN r[j] ELSE <<>>

\* the date token printed on row k, None where there is none
DateTok(k) == parse_ddmm(norm(Cell(rows[k], loc.date_col)))

\* the time token printed on row k as a label, None where there is none
TimeTok(k) == LET t == norm(Cell(rows[k], loc.time_col))
              IN  IF TimeFound(t) THEN normalize_time(t) ELSE None

\* the most recent date token at or above row k, below the header
RECURSIVE CarriedDateAt(_)
CarriedDateAt(k) == IF k <= loc.header_i THEN None
                    ELSE LET d == DateTok(k)
                         IN  IF d # None THEN d ELSE CarriedDateAt(k - 1)

\* the most recent time token at or above row k, below the header
RECURSIVE CarriedTimeAt(_)
CarriedTimeAt(k) == IF k <= loc.header_i THEN None
                    ELSE LET t == TimeTok(k)
                         IN  IF t # None THEN t ELSE CarriedTimeAt(k - 1)

GroupCellsBlank(k) == \A j \in loc.group_cols : norm(Cell(rows[k], j)) = <<>>

\* the rows the loop has been through
Walked == IF pos = 0 THEN {} ELSE (loc.header_i + 1)..(pos - 1)

\* C1: in extract_schedule_for_date the carried date and the carried time
\* are updated on every row, skipped rows included: after a row they are the
\* most recent date token and the most recent time token at or above it; and
\* a row with blank date and time cells and a non-empty group cell adds an
\* item under the time of the nearest earlier row that printed one, when the
\* date carried to it is the requested one.
C1_CarryForward ==
    [][(pc = "walk" /\ pos' = pos + 1) =>
         LET d == CarriedDateAt(pos)
             t == CarriedTimeAt(pos)
         IN  /\ cur_date' = d
             /\ cur_time' = t
             /\ (/\ norm(Cell(rows[pos], loc.date_col)) = <<>>
                 /\ norm(Cell(rows[pos], loc.time_col)) = <<>>
                 /\ ~GroupCellsBlank(pos)
                 /\ d = target_ddmm
                 /\ t # None)
                => /\ Len(items') = Len(items) + 1
                   /\ items'[Len(items')][1] = t]_vars

\* a row with blank date and time cells and a text, walked after a skipped
\* row of another date and a row of the requested date with a time
C1_Witness ==
    /\ pc = "walk" /\ pos = loc.header_i + 4
    /\ DateTok(pos - 3) # None /\ DateTok(pos - 3) # target_ddmm
    /\ DateTok(pos - 2) = target_ddmm /\ TimeTok(pos - 2) # None
    /\ DateTok(pos - 1) = None /\ TimeTok(pos - 1) = None /\ ~GroupCellsBlank(pos - 1)
    /\ Len(items) = 2 /\ items[2][1] = TimeTok(pos - 2)

\* the tokens printed on rows 1..n, None on the header row and above it
RECURSIVE DateToks(_)
DateToks(n) == IF n = 0 THEN <<>>
               ELSE Append(DateToks(n - 1), IF n <= loc.header_i THEN None ELSE DateTok(n))

RECURSIVE TimeToks(_)
TimeToks(n) == IF n = 0 THEN <<>>
               ELSE Append(TimeToks(n - 1), IF n <= loc.header_i THEN None ELSE TimeTok(n))

\* the most recent token of toks at or above row k, below the header
RECURSIVE Carried(_, _)
Carried(toks, k) == IF k <= loc.header_i THEN None
                    ELSE IF toks[k] # None THEN toks[k]
                    ELSE Carried(toks, k - 1)

\* the times carried to the rows below the header, down to row k, whose
\* carried date is the requested date and whose carried time is set, in row
\* order
RECURSIVE EmittingTimes(_, _, _)
EmittingTimes(dts, tts, k) ==
    IF k <= loc.header_i THEN <<>>
    ELSE IF Carried(dts, k) = target_ddmm /\ Carried(tts, k) # None
         THEN Append(EmittingTimes(dts, tts, k - 1), Carried(tts, k))
         ELSE EmittingTimes(dts, tts, k - 1)

\* C9: every item of extract_schedule_for_date comes from a row whose
\* carried date is the requested date and whose carried time is set: the
\* items are, in order, one per such row walked, each under the time carried
\* to its row, and no other row adds one, so the rows of the requested date
\* above the first time token add nothing.
C9_ItemsOnlyFromTimedRows ==
    pos > 0 =>
        LET emitting == EmittingTimes(DateToks(pos - 1), TimeToks(pos - 1), pos - 1)
        IN  /\ Len(items) = Len(emitting)
            /\ \A n \in 1..Len(items) : items[n][1] # None /\ items[n][1] = emitting[n]
            /\ \A n \in 1..Len(out) : InSeq(out[n], items)

\* a row of the requested date above the first time token added nothing,
\* and a later row added an item
C9_Witness ==
    /\ pc = "walk" /\ pos >= loc.header_i + 3
    /\ CarriedDateAt(loc.header_i + 1) = target_ddmm
    /\ CarriedTimeAt(loc.header_i + 1) = None
    /\ ~GroupCellsBlank(loc.header_i + 1)
    /\ Len(items) = pos - loc.header_i - 2

\* C10: the carried time is never cleared by a change of the carried date:
\* a row without a time token, a row that prints a new date included, leaves
\* the carried time as it was, and if the date carried to it is the
\* requested one its item goes under that earlier time.
C10_TimeSurvivesDateChange ==
    [][(pc = "walk" /\ pos' = pos + 1 /\ cur_time # None /\ TimeTok(pos) = None) =>
         /\ cur_time' = cur_time
         /\ cur_date' = target_ddmm =>
              /\ Len(items') = Len(items) + 1
              /\ items'[Len(items')][1] = cur_time]_vars

\* the last row walked prints the requested date and no time, the rows
\* above it are of another date, and its item has their time
C10_Witness ==
    /\ pc = "walk" /\ pos >= loc.header_i + 3
    /\ DateTok(pos - 1) = target_ddmm /\ TimeTok(pos - 1) = None
    /\ CarriedDateAt(pos - 2) \notin {None, target_ddmm}
    /\ CarriedTimeAt(pos - 2) # None
    /\ \A k \in Walked : k < pos - 1 => CarriedDateAt(k) # target_ddmm
    /\ Len(items) = 1 /\ items[1][1] = CarriedTimeAt(pos - 2)

NoRowOfTargetDate == \A k \in (loc.header_i + 1)..Len(rows) : CarriedDateAt(k) # target_ddmm

\* C7: with the header and the group's columns located and no row below
\* the header whose carried date is the requested date,
\* extract_schedule_for_date returns the empty list, nothing is raised, and
\* format_schedule gives the title line and the line "net par": no error
\* reply and no per-slot placeholder.
C7_NoRowsIsNoClasses ==
    (pc = "replied" /\ HeaderFound(rows) /\ loc.group_cols # {} /\ NoRowOfTargetDate) =>
        /\ out = <<>>
        /\ ~reply.error
        /\ reply.text = group_name \o <<" ", "EM", " ">> \o target_ddmm \o <<":", "LF">> \o NoPairsLine
        /\ ~Contains(reply.text, NoPairSlot)

\* the reply to a table with rows of another date only
C7_Witness ==
    /\ pc = "replied" /\ HeaderFound(rows) /\ loc.group_cols # {} /\ NoRowOfTargetDate
    /\ Len(rows) >= loc.header_i + 2
    /\ \E k \in (loc.header_i + 1)..Len(rows) : DateTok(k) # None /\ ~GroupCellsBlank(k)
    /\ ~reply.error

\* the labels with the group prefix in the rows scanned for the group
WindowLabels ==
    {norm(rows[i][j]) : <<i, j>> \in
        {p \in GroupWindow(rows, loc.header_i) \X (1..SetMax({Len(rows[i]) : i \in 1..Len(rows)})) :
            p[2] <= Len(rows[p[1]]) /\ HasGroupPrefix(norm(rows[p[1]][p[2]]))}}

\* C3: with the header row found and no cell of the group scan window equal
\* to the requested group after normalisation, extract_schedule_for_date
\* fails with the group-column error and returns nothing; and if a label
\* with the group prefix is in that window, the hint lists such a label.
C3_HintListsWindowLabel ==
    (pc = "replied" /\ HeaderFound(rows) /\ loc.header_i > 0 /\ loc.group_cols = {}) =>
        /\ reply.error /\ reply.kind = "GroupColumnNotFound"
        /\ out = <<>>
        /\ WindowLabels # {} => reply.hint \cap WindowLabels # {}

\* C4: for a range H:MM<dash>H:MM with a hyphen, an en-dash or an em-dash,
\* spaces around it or not, and ":" or "." between hours and minutes,
\* normalize_time returns "H:MM<en-dash>H:MM", the hours without a leading
\* zero: one label whatever the dash and the separators.
C4_CanonicalForEveryDash ==
    pc = "done" =>
        timeOut = IntStr(IntOf(timeIn.h1)) \o <<":">> \o timeIn.m1 \o <<"EN">>
                  \o IntStr(IntOf(timeIn.h2)) \o <<":">> \o timeIn.m2

\* the non-placeholder lines and the placeholder items of the time group tm
GroupItems(tm) == {i \in 1..Len(mergeIn) : Strip(mergeIn[i][1]) = tm /\ Strip(mergeIn[i][2]) # <<>>}

\* C2: in the result of merge_items_by_time, the entry of a time group that
\* holds the placeholder item and an item with a real line has the real
\* lines and not the placeholder line.
C2_PlaceholderSuppressed ==
    pc \in {"merged", "done"} =>
        \A k \in 1..Len(mergeOut) :
            LET grp == GroupItems(mergeOut[k][1])
                hasPlaceholder == \E i \in grp : Strip(mergeIn[i][2]) = NoPairSlot
                hasReal == \E i \in grp : \E n \in 1..Len(StrippedLines(mergeIn[i][2])) :
                               StrippedLines(mergeIn[i][2])[n] # NoPairSlot
            IN  (hasPlaceholder /\ hasReal) => ~InSeq(NoPairSlot, StrippedLines(mergeOut[k][2]))

\* C5: merge_items_by_time applied to its own result gives that result.
C5_MergeIdempotent == pc = "done" => mergeOut2 = mergeOut

\* three items, two of them of one time written differently, merged to two
\* entries, one of two lines
C5_Witness ==
    /\ pc = "done" /\ Len(mergeIn) = 3 /\ Len(mergeOut) = 2
    /\ \E i, j \in 1..3 : mergeIn[i][1] # mergeIn[j][1] /\ Strip(mergeIn[i][1]) = Strip(mergeIn[j][1])
    /\ \E k \in 1..2 : Len(StrippedLines(mergeOut[k][2])) >= 2
    /\ mergeOut2 = mergeOut

IsFragment(c) == Lower(c) \in TAG_ONLY \/ StartsWith(c, <<"/">>)

\* the lines as the claim has them glued: each line kept, a bare tag or a
\* slash line after a kept line joined to it by one space
RECURSIVE GluedAsClaimed(_, _)
GluedAsClaimed(ls, acc) ==
    IF ls = <<>> THEN acc
    ELSE LET c == compact_spaces(Head(ls))
         IN  IF c = <<>> \/ IsBoilerplate(Head(ls)) THEN GluedAsClaimed(Tail(ls), acc)
             ELSE IF acc # <<>> /\ IsFragment(c)
                  THEN GluedAsClaimed(Tail(ls), [acc EXCEPT ![Len(acc)] = @ \o <<" ">> \o c])
             ELSE GluedAsClaimed(Tail(ls), Append(acc, c))

\* C6: _postprocess_cell_text appends a line that is a bare tag ("pr",
\* "lek", in any case) or starts with a slash to the line collected before
\* it, one space between; no line of the result but the first is a bare tag
\* or starts with "/"; and "Algebra", "pr", "/ 3-17" give "Algebra pr / 3-17".
C6_FragmentGluing ==
    pc = "done" =>
        /\ glued = GluedAsClaimed(cellLines, <<>>)
        /\ \A k \in 2..Len(glued) : ~IsFragment(glued[k])
        /\ cellLines = <<L_Algebra, W_pr, L_room>>
             => glued = <<L_Algebra \o <<" ">> \o W_pr \o <<" ">> \o L_room>>

\* the example of the claim
C6_Witness ==
    /\ pc = "done" /\ cellLines = <<L_Algebra, W_pr, L_room>>
    /\ glued = <<L_Algebra \o <<" ">> \o W_pr \o <<" ">> \o L_room>>

\* C8: a call of fetch_csv_text made less than CACHE_SECONDS after the
\* fetch that stored a non-empty text returns that text with no request,
\* whatever the URL, and leaves the cache as it is; any other call makes a
\* request and, if it succeeds, stores its text and the time of the call.
C8_CacheFreshness ==
    [][returned'.call = returned.call + 1 =>
         IF CACHE_TEXT # None /\ CACHE_TEXT # <<>> /\ now < CACHE_TS + CACHE_SECONDS
         THEN /\ returned'.text = CACHE_TEXT /\ ~returned'.raised
              /\ requests' = requests
              /\ CACHE_TEXT' = CACHE_TEXT /\ CACHE_TS' = CACHE_TS
         ELSE /\ requests' = requests + 1
              /\ ~returned'.raised => (CACHE_TEXT' = returned'.text /\ CACHE_TS' = now)]_vars

\* a call with another URL answered from the cache in the last second of
\* its validity, then a call one second later that fetched again
C8_Witness ==
    /\ returned.call = 3 /\ requests = 2 /\ ~returned.raised /\ ~returned.cached
    /\ now = StartNow + CACHE_SECONDS /\ CACHE_TS = now
    /\ CACHE_TEXT # <<>>

====
